---- MODULE Spec2Model ----
(***************************************************************************)
(* gl-clock: the GPU resource wrappers, the shader program with its        *)
(* uniform-location cache, the clock parts and the render loop of main.    *)
(*                                                                         *)
(* Every GL / SDL call the program issues is appended to gpu.calls in      *)
(* program order, so that ordering and lifetime properties are properties  *)
(* of that record.  An operation of the program is an operator that yields *)
(* the calls it issues (calls) next to its result (val).  A GL object name *)
(* is a positive integer handed out by the driver: an operation that       *)
(* creates objects takes the next free name n and yields the next free     *)
(* name after it (next).  0 is "no object".                                *)
(*                                                                         *)
(* Numbers: f32 lengths, coordinates and matrix entries are fixed-point    *)
(* thousandths (Milli), angles are integer micro-degrees.  The hand        *)
(* rotation, stored by the code in radians, is kept as the same angle in   *)
(* micro-degrees (a change of unit only).                                  *)
(***************************************************************************)
EXTENDS Integers, Sequences, FiniteSets, TLC

VARIABLES
    pc,         \* position of main: "start", "renderer", "clock", "pump", "poll", "update", "draw", "return", "exited"; "harness", "panicked" in the setter specification
    err,        \* <<>> or <<Error>>: the error main is returning, or the panic unwinding it
    exitCode,   \* -1 while running, then the process exit code
    gpu,        \* the GL driver: [calls, nextId, active]
    stderr,     \* the diagnostic stream, a sequence of lines
    sdl,        \* which SDL objects main holds: [ctx, pump]
    renderer,   \* <<>> or <<Renderer>>
    clock,      \* <<>> or <<AnalogClock>>
    rc,         \* <<>> or <<cells>>: the two Rc<RefCell<..>> cells shared by the hands
    frames,     \* number of loop iterations begun (setter specification: calls made)
    call        \* setter specification: <<>> or <<the last call made and its result>>

vars == <<pc, err, exitCode, gpu, stderr, sdl, renderer, clock, rc, frames, call>>

----------------------------------------------------------------------------
(* Bounds of the model *)

MaxFrames == 2

MaxCalls == 2

MaxUpdates == 2

MaxRects == 1

(* Fixed-point unit: 1.0 = Milli *)
Milli == 10 ^ 3

(* Micro-degrees per degree *)
MicroDeg == 10 ^ 6

----------------------------------------------------------------------------
(* Small helpers *)

None == <<>>

Some(x) == <<x>>

IsSome(o) == Len(o) = 1

Get(o) == o[1]

(* a * b for thousandths, rounded toward zero *)
FMul(a, b) == IF a * b < 0 THEN -((-(a * b)) \div Milli) ELSE (a * b) \div Milli

(* an anyhow::Error: what failed, and the text it carries *)
Error(kind, text) == [kind |-> kind, text |-> text]

(* one call: op on object h with argument x *)
C(op, h, x) == [op |-> op, h |-> h, x |-> x]

----------------------------------------------------------------------------
(* The GL driver *)

(* active: for each linked program, the locations of its active uniforms *)
GpuInit == [calls |-> <<>>, nextId |-> 1, active |-> <<>>]

(* glGetUniformLocation: the location of an active uniform, -1 otherwise *)
UniformLocation(active, id, name) ==
    IF id \in DOMAIN active /\ name \in DOMAIN active[id]
    THEN active[id][name] ELSE -1

----------------------------------------------------------------------------
(* GPUBuffer, GPUVertexArray *)

GPUBuffer_new(n, buffer_type) ==
    [calls |-> <<C("GenBuffers", n, <<>>)>>, next |-> n + 1,
     val |-> [id |-> n, buffer_type |-> buffer_type]]

GPUBuffer_set_data(buf, len) ==
    <<C("BindBuffer", buf.id, buf.buffer_type), C("BufferData", buf.id, len)>>

GPUBuffer_drop(buf) == <<C("DeleteBuffers", buf.id, <<>>)>>

GPUVertexArray_new(n) ==
    [calls |-> <<C("GenVertexArrays", n, <<>>)>>, next |-> n + 1, val |-> n]

GPUVertexArray_bind(id) == <<C("BindVertexArray", id, <<>>)>>

GPUVertexArray_drop(id) == <<C("DeleteVertexArrays", id, <<>>)>>

----------------------------------------------------------------------------
(* GPUTexture *)

(* the outcomes of opening and decoding the image file *)
ImageFiles == {
    [is_file |-> FALSE, decodes |-> FALSE, color |-> "none"],
    [is_file |-> TRUE,  decodes |-> FALSE, color |-> "none"],
    [is_file |-> TRUE,  decodes |-> TRUE,  color |-> "L8"],
    [is_file |-> TRUE,  decodes |-> TRUE,  color |-> "Rgb8"],
    [is_file |-> TRUE,  decodes |-> TRUE,  color |-> "Rgba8"] }

(* a loader that generates the texture before it looks at the color type *)
GPUTexture_from_img_file_early(n, img) ==
    IF ~img.is_file
    THEN [calls |-> <<>>, next |-> n, ok |-> FALSE,
          val |-> Error("Image path does not lead to a regular file", <<>>)]
    ELSE IF ~img.decodes
    THEN [calls |-> <<>>, next |-> n, ok |-> FALSE, val |-> Error("image decode error", <<>>)]
    ELSE IF img.color \notin {"Rgb8", "Rgba8"}
    THEN [calls |-> <<C("GenTextures", n, <<>>)>>, next |-> n + 1, ok |-> FALSE,
          val |-> Error("Unsupported color format", <<>>)]
    ELSE [calls |-> <<C("GenTextures", n, <<>>), C("BindTexture", n, <<>>)>>,
          next |-> n + 1, ok |-> TRUE, val |-> [id |-> n, usage |-> "Diffuse"]]

GPUTexture_from_img_file(n, img) ==
    IF ~img.is_file
    THEN [calls |-> <<>>, next |-> n, ok |-> FALSE,
          val |-> Error("Image path does not lead to a regular file", <<>>)]
    ELSE IF ~img.decodes
    THEN [calls |-> <<>>, next |-> n, ok |-> FALSE, val |-> Error("image decode error", <<>>)]
    ELSE IF img.color \notin {"Rgb8", "Rgba8"}
    THEN [calls |-> <<>>, next |-> n, ok |-> FALSE, val |-> Error("Unsupported color format", <<>>)]
    ELSE [calls |-> <<C("GenTextures", n, <<>>), C("BindTexture", n, <<>>),
                      C("TexParameteri", 0, "TEXTURE_WRAP_S"),
                      C("TexParameteri", 0, "TEXTURE_WRAP_T"),
                      C("TexParameteri", 0, "TEXTURE_MIN_FILTER"),
                      C("TexParameteri", 0, "TEXTURE_MAG_FILTER"),
                      C("TexImage2D", 0, img.color), C("GenerateMipmap", 0, <<>>)>>,
          next |-> n + 1, ok |-> TRUE, val |-> [id |-> n, usage |-> "Diffuse"]]

GPUTexture_bind(tex) == <<C("BindTexture", tex.id, <<>>)>>

GPUTexture_drop(tex) == <<C("DeleteTextures", tex.id, <<>>)>>

----------------------------------------------------------------------------
(* Vertex, Mesh *)

(* size_of::<Vertex>(): 8 f32 *)
VertexStride == 32

TexCoordinateOffset == 12

NormalOffset == 20

(* size_of::<u32>() *)
IndexSize == 4

Vertex_new(position, texture_coordinate, normal) ==
    [position |-> position, texture_coordinate |-> texture_coordinate, normal |-> normal]

Vertex_set_vertex_attributes ==
    <<C("VertexAttribPointer", 0, [slot |-> 0, size |-> 3, stride |-> VertexStride, offset |-> 0]),
      C("EnableVertexAttribArray", 0, 0),
      C("VertexAttribPointer", 0, [slot |-> 1, size |-> 2, stride |-> VertexStride, offset |-> TexCoordinateOffset]),
      C("EnableVertexAttribArray", 0, 1),
      C("VertexAttribPointer", 0, [slot |-> 2, size |-> 3, stride |-> VertexStride, offset |-> NormalOffset]),
      C("EnableVertexAttribArray", 0, 2)>>

Mesh_new(n, vertices, indices) ==
    LET Made(vertex_buffer, index_buffer, vertex_array_object) ==
            [calls |-> vertex_buffer.calls \o index_buffer.calls \o vertex_array_object.calls
                       \o GPUVertexArray_bind(vertex_array_object.val)
                       \o GPUBuffer_set_data(vertex_buffer.val, Len(vertices) * VertexStride)
                       \o GPUBuffer_set_data(index_buffer.val, Len(indices) * IndexSize)
                       \o Vertex_set_vertex_attributes
                       \o <<C("BindVertexArray", 0, <<>>)>>,
             next |-> vertex_array_object.next,
             val |-> [vertices |-> vertices, indices |-> indices,
                      vertex_array_object |-> vertex_array_object.val,
                      vertex_buffer |-> vertex_buffer.val, index_buffer |-> index_buffer.val]]
    IN  Made(GPUBuffer_new(n, "ARRAY_BUFFER"), GPUBuffer_new(n + 1, "ELEMENT_ARRAY_BUFFER"),
             GPUVertexArray_new(n + 2))

Mesh_draw(mesh) ==
    GPUVertexArray_bind(mesh.vertex_array_object)
    \o <<C("DrawElements", mesh.vertex_array_object, Len(mesh.indices)),
         C("BindVertexArray", 0, <<>>)>>

Mesh_draw_instanced(mesh, count) ==
    GPUVertexArray_bind(mesh.vertex_array_object)
    \o <<C("DrawElementsInstancedBaseInstance", mesh.vertex_array_object,
           [count |-> Len(mesh.indices), instances |-> count]),
         C("BindVertexArray", 0, <<>>)>>

(* a rectangle whose indices count from one *)
Mesh_make_rect_one_based(n, width, height, uv_top_left, uv_bottom_right) ==
    Mesh_new(n,
        << Vertex_new(<<FMul(width, 500), FMul(height, 500), 0>>, <<0, 0>>, <<0, 0, Milli>>),
           Vertex_new(<<FMul(width, 500), -FMul(height, 500), 0>>, <<0, 0>>, <<0, 0, Milli>>),
           Vertex_new(<<-FMul(width, 500), -FMul(height, 500), 0>>, <<0, 0>>, <<0, 0, Milli>>),
           Vertex_new(<<-FMul(width, 500), FMul(height, 500), 0>>, <<0, 0>>, <<0, 0, Milli>>) >>,
        <<1, 2, 4, 2, 3, 4>>)

(* uv_top_left, uv_bottom_right: <<>> or <<[u, v]>> *)
Mesh_make_rect(n, width, height, uv_top_left, uv_bottom_right) ==
    LET Rect(half_width, half_height, tl, br) ==
            Mesh_new(n,
                << Vertex_new(<<half_width, half_height, 0>>, <<br[1], tl[2]>>, <<0, 0, Milli>>),
                   Vertex_new(<<half_width, -half_height, 0>>, br, <<0, 0, Milli>>),
                   Vertex_new(<<-half_width, -half_height, 0>>, <<tl[1], br[2]>>, <<0, 0, Milli>>),
                   Vertex_new(<<-half_width, half_height, 0>>, tl, <<0, 0, Milli>>) >>,
                <<0, 1, 3, 1, 2, 3>>)
    IN  Rect(FMul(width, 500), FMul(height, 500),
             IF uv_top_left = <<>> THEN <<0, 0>> ELSE uv_top_left[1],
             IF uv_bottom_right = <<>> THEN <<Milli, Milli>> ELSE uv_bottom_right[1])

(* drop glue: the fields in declaration order *)
Mesh_drop(mesh) ==
    GPUVertexArray_drop(mesh.vertex_array_object)
    \o GPUBuffer_drop(mesh.vertex_buffer)
    \o GPUBuffer_drop(mesh.index_buffer)

----------------------------------------------------------------------------
(* ShaderProgram *)

(* capacity of the info-log capture buffer *)
InfoLogCap == 512

(* glGet*InfoLog into vec![0; 512]: at most cap-1 bytes and a terminator *)
InfoLogBuffer(log) ==
    [i \in 1..InfoLogCap |-> IF i <= Len(log) /\ i < InfoLogCap THEN log[i] ELSE 0]

(* the buffer cut at its first zero byte, if it has one *)
TruncateAtNul(buf) ==
    IF \E i \in DOMAIN buf : buf[i] = 0
    THEN SubSeq(buf, 1, (CHOOSE i \in DOMAIN buf : buf[i] = 0 /\ \A j \in 1..(i-1) : buf[j] # 0) - 1)
    ELSE buf

(* CString::new: fails on a zero byte *)
CStringNew(bytes) ==
    IF \E i \in DOMAIN bytes : bytes[i] = 0
    THEN [ok |-> FALSE, val |-> "NulError"]
    ELSE [ok |-> TRUE, val |-> bytes]

(* the error made of an info-log buffer: its text up to the first zero byte *)
InfoLogError(buf) ==
    IF CStringNew(TruncateAtNul(buf)).ok
    THEN Error("info log", CStringNew(TruncateAtNul(buf)).val)
    ELSE Error("NulError", <<>>)

(* source: [nul, compiles, log], what the driver makes of one stage's text *)
ShaderProgram_compile_shader_stage(n, source, stage) ==
    IF source.nul
    THEN [calls |-> <<C("CreateShader", n, stage)>>, next |-> n + 1, ok |-> FALSE,
          val |-> Error("NulError", <<>>)]
    ELSE IF ~source.compiles
    THEN [calls |-> <<C("CreateShader", n, stage), C("ShaderSource", n, <<>>),
                      C("CompileShader", n, <<>>), C("GetShaderiv", n, <<>>),
                      C("GetShaderInfoLog", n, <<>>)>>,
          next |-> n + 1, ok |-> FALSE,
          val |-> InfoLogError(InfoLogBuffer(source.log))]
    ELSE [calls |-> <<C("CreateShader", n, stage), C("ShaderSource", n, <<>>),
                      C("CompileShader", n, <<>>), C("GetShaderiv", n, <<>>)>>,
          next |-> n + 1, ok |-> TRUE, val |-> n]

(* the fragment stage failed without deleting the vertex shader *)
ShaderProgram_fragment_failed_keeps_vertex(vertex_shader, fragment_shader) ==
    [calls |-> vertex_shader.calls \o fragment_shader.calls,
     next |-> fragment_shader.next, active |-> <<>>,
     ok |-> FALSE, val |-> fragment_shader.val]

(* the Err arm of the fragment stage: the vertex shader is deleted and the
   error returned *)
ShaderProgram_fragment_failed(vertex_shader, fragment_shader) ==
    [calls |-> vertex_shader.calls \o fragment_shader.calls
               \o <<C("DeleteShader", vertex_shader.val, <<>>)>>,
     next |-> fragment_shader.next, active |-> <<>>,
     ok |-> FALSE, val |-> fragment_shader.val]

(* src: [vertex, fragment, links, link_log, uniforms]; the result's active
   holds the uniform locations of the program if it linked.  A stage object
   takes one name whether it compiles or not, so the fragment stage is n + 1
   and the program n + 2 *)
ShaderProgram_from_sources(n, name, src) ==
    LET Link(program_id, vertex_shader, fragment_shader) ==
            <<C("CreateProgram", program_id, <<>>),
              C("AttachShader", program_id, vertex_shader),
              C("AttachShader", program_id, fragment_shader),
              C("LinkProgram", program_id, <<>>),
              C("DeleteShader", fragment_shader, <<>>), C("DeleteShader", vertex_shader, <<>>),
              C("GetProgramiv", program_id, <<>>)>>
        Compiled(vertex_shader, fragment_shader, program_id) ==
            IF ~vertex_shader.ok
            THEN [calls |-> vertex_shader.calls, next |-> vertex_shader.next, active |-> <<>>,
                  ok |-> FALSE, val |-> vertex_shader.val]
            ELSE IF ~fragment_shader.ok
            THEN ShaderProgram_fragment_failed(vertex_shader, fragment_shader)
            ELSE IF ~src.links
            THEN [calls |-> vertex_shader.calls \o fragment_shader.calls
                            \o Link(program_id, vertex_shader.val, fragment_shader.val)
                            \o <<C("GetProgramInfoLog", program_id, <<>>)>>,
                  next |-> program_id + 1, active |-> <<>>, ok |-> FALSE,
                  val |-> InfoLogError(InfoLogBuffer(src.link_log))]
            ELSE [calls |-> vertex_shader.calls \o fragment_shader.calls
                            \o Link(program_id, vertex_shader.val, fragment_shader.val),
                  next |-> program_id + 1, active |-> (program_id :> src.uniforms),
                  ok |-> TRUE,
                  val |-> [name |-> name, id |-> program_id, uniform_locations |-> <<>>]]
    IN  Compiled(ShaderProgram_compile_shader_stage(n, src.vertex, "VERTEX_SHADER"),
                 ShaderProgram_compile_shader_stage(n + 1, src.fragment, "FRAGMENT_SHADER"),
                 n + 2)

ShaderProgram_activate(prog) == <<C("UseProgram", prog.id, <<>>)>>

(* a lookup that asks the GPU every time and caches nothing *)
ShaderProgram_get_uniform_location_uncached(active, prog, name) ==
    IF ~CStringNew(name).ok
    THEN [calls |-> <<>>, prog |-> prog, val |-> None, panic |-> TRUE]
    ELSE [calls |-> <<C("GetUniformLocation", prog.id, name)>>, prog |-> prog,
          val |-> IF UniformLocation(active, prog.id, name) < 0 THEN None
                  ELSE Some(UniformLocation(active, prog.id, name)),
          panic |-> FALSE]

(* a lookup whose cache keeps the last name only *)
ShaderProgram_get_uniform_location_last(active, prog, name) ==
    IF name \in DOMAIN prog.uniform_locations
    THEN [calls |-> <<>>, prog |-> prog, val |-> Some(prog.uniform_locations[name]), panic |-> FALSE]
    ELSE IF ~CStringNew(name).ok
    THEN [calls |-> <<>>, prog |-> prog, val |-> None, panic |-> TRUE]
    ELSE IF UniformLocation(active, prog.id, name) < 0
    THEN [calls |-> <<C("GetUniformLocation", prog.id, name)>>, prog |-> prog,
          val |-> None, panic |-> FALSE]
    ELSE [calls |-> <<C("GetUniformLocation", prog.id, name)>>,
          prog |-> [prog EXCEPT !.uniform_locations =
                        (name :> UniformLocation(active, prog.id, name))],
          val |-> Some(UniformLocation(active, prog.id, name)), panic |-> FALSE]

(* the result is [calls, prog, val, panic], val: <<>> or <<location>> *)
ShaderProgram_get_uniform_location(active, prog, name) ==
    IF name \in DOMAIN prog.uniform_locations
    THEN [calls |-> <<>>, prog |-> prog, val |-> Some(prog.uniform_locations[name]), panic |-> FALSE]
    ELSE IF ~CStringNew(name).ok
    THEN [calls |-> <<>>, prog |-> prog, val |-> None, panic |-> TRUE]
    ELSE IF UniformLocation(active, prog.id, name) < 0
    THEN [calls |-> <<C("GetUniformLocation", prog.id, name)>>, prog |-> prog,
          val |-> None, panic |-> FALSE]
    ELSE [calls |-> <<C("GetUniformLocation", prog.id, name)>>,
          prog |-> [prog EXCEPT !.uniform_locations =
                        (name :> UniformLocation(active, prog.id, name)) @@ @],
          val |-> Some(UniformLocation(active, prog.id, name)), panic |-> FALSE]

(* the body the four setters share: upload value with op, or report kind;
   the result is [calls, prog, diag, panic] *)
ShaderProgram_set(l, name, value, op, kind) ==
    IF l.panic
    THEN [calls |-> l.calls, prog |-> l.prog, diag |-> <<>>, panic |-> TRUE]
    ELSE IF IsSome(l.val)
    THEN [calls |-> l.calls \o <<C(op, 0, [location |-> Get(l.val), value |-> value])>>,
          prog |-> l.prog, diag |-> <<>>, panic |-> FALSE]
    ELSE [calls |-> l.calls, prog |-> l.prog,
          diag |-> <<[kind |-> kind, name |-> name, program |-> l.prog.name]>>,
          panic |-> FALSE]

ShaderProgram_set_mat4(active, prog, name, value) ==
    ShaderProgram_set(ShaderProgram_get_uniform_location(active, prog, name),
                      name, value, "UniformMatrix4fv", "Mat4 shader uniform")

ShaderProgram_set_mat4_array(active, prog, name, values) ==
    ShaderProgram_set(ShaderProgram_get_uniform_location(active, prog, name),
                      name, values, "UniformMatrix4fv", "Mat4 shader uniform array")

ShaderProgram_set_vec3(active, prog, name, value) ==
    ShaderProgram_set(ShaderProgram_get_uniform_location(active, prog, name),
                      name, value, "Uniform3fv", "Vec3 shader uniform")

ShaderProgram_set_vec2(active, prog, name, value) ==
    ShaderProgram_set(ShaderProgram_get_uniform_location(active, prog, name),
                      name, value, "Uniform2fv", "Vec2 shader uniform")

ShaderProgram_drop(prog) == <<C("DeleteProgram", prog.id, <<>>)>>

----------------------------------------------------------------------------
(* f32 arithmetic in fixed point *)

Vec3_add(a, b) == <<a[1] + b[1], a[2] + b[2], a[3] + b[3]>>

Vec3_scale(a, k) == <<FMul(a[1], k), FMul(a[2], k), FMul(a[3], k)>>

(* sine of an angle of t tenths of a degree, 0 <= t <= 1800, in thousandths:
   4 t (1800 - t) / (4050000 - t (1800 - t)); exact at 0, 30, 90, 150, 180 degrees *)
SinHalfTurn(t) == (400 * (t * (1800 - t))) \div ((4050000 - (t * (1800 - t))) \div 10)

(* tenths of a degree in 0..3599 of an angle given in micro-degrees *)
Tenths(a) == (a % (360 * MicroDeg)) \div (MicroDeg \div 10)

(* f32::sin of an angle given in micro-degrees, in thousandths *)
Sin(a) == IF Tenths(a) <= 1800 THEN SinHalfTurn(Tenths(a)) ELSE -SinHalfTurn(Tenths(a) - 1800)

(* f32::cos of an angle given in micro-degrees, in thousandths *)
Cos(a) == Sin(a + 90 * MicroDeg)

Mat4_IDENTITY ==
    << <<Milli, 0, 0, 0>>, <<0, Milli, 0, 0>>, <<0, 0, Milli, 0>>, <<0, 0, 0, Milli>> >>

Affine3A_from_rotation_z(a) ==
    << <<Cos(a), -Sin(a), 0, 0>>, <<Sin(a), Cos(a), 0, 0>>, <<0, 0, Milli, 0>>, <<0, 0, 0, Milli>> >>

Affine3A_from_translation(t) ==
    << <<Milli, 0, 0, t[1]>>, <<0, Milli, 0, t[2]>>, <<0, 0, Milli, t[3]>>, <<0, 0, 0, Milli>> >>

Affine3A_from_scale(k) ==
    << <<k[1], 0, 0, 0>>, <<0, k[2], 0, 0>>, <<0, 0, k[3], 0>>, <<0, 0, 0, Milli>> >>

Affine3A_mul(A, B) ==
    [i \in 1..4 |-> [j \in 1..4 |->
        FMul(A[i][1], B[1][j]) + FMul(A[i][2], B[2][j])
      + FMul(A[i][3], B[3][j]) + FMul(A[i][4], B[4][j])]]

----------------------------------------------------------------------------
(* Shader sources and uniform names (a name is the bytes of the Rust string) *)

(* "transformation" *)
TRANSFORMATION == <<116, 114, 97, 110, 115, 102, 111, 114, 109, 97, 116, 105, 111, 110>>

(* "color" *)
COLOR == <<99, 111, 108, 111, 114>>

(* "Err", the compiler's diagnostic for a stage that does not compile *)
CompileLog == <<69, 114, 114>>

(* "Lnk", the linker's diagnostic *)
LinkLog == <<76, 110, 107>>

(* what the driver makes of one stage's source text *)
StageOutcomes == {
    [nul |-> FALSE, compiles |-> TRUE,  log |-> <<>>],
    [nul |-> FALSE, compiles |-> FALSE, log |-> CompileLog] }

(* the outcomes of compiling and linking sources that declare uniforms *)
ProgramOutcomes(uniforms) ==
    { [vertex |-> v, fragment |-> f, links |-> l,
       link_log |-> IF l THEN <<>> ELSE LinkLog, uniforms |-> uniforms] :
      v \in StageOutcomes, f \in StageOutcomes, l \in BOOLEAN }

(* shaders/clockHand.vert, clockHand.frag: uniforms transformation and color *)
ClockHand_SHADER_SRC == ProgramOutcomes((TRANSFORMATION :> 0) @@ (COLOR :> 1))

(* shaders/clockFace.vert, clockFace.frag: no uniform set by the host *)
ClockFace_SHADER_SRC == ProgramOutcomes(<<>>)

----------------------------------------------------------------------------
(* ClockFace *)

ClockFace_VERTICES == <<
    Vertex_new(<<Milli, Milli, 0>>,   <<Milli, 0>>,     <<0, 0, 0>>),
    Vertex_new(<<Milli, -Milli, 0>>,  <<Milli, Milli>>, <<0, 0, 0>>),
    Vertex_new(<<-Milli, -Milli, 0>>, <<0, Milli>>,     <<0, 0, 0>>),
    Vertex_new(<<-Milli, Milli, 0>>,  <<0, 0>>,         <<0, 0, 0>>) >>

ClockFace_INDICES == <<0, 1, 3, 1, 2, 3>>

(* drop glue: mesh, shader_program, texture *)
ClockFace_drop(face) ==
    Mesh_drop(face.mesh) \o ShaderProgram_drop(face.shader_program) \o GPUTexture_drop(face.texture)

(* on an early return the locals are dropped in reverse order of declaration.
   The mesh takes three names; the texture is loaded only once the program,
   which takes three more, is made *)
ClockFace_new(n, src, img) ==
    LET Made(mesh, shader_program, texture) ==
            IF ~shader_program.ok
            THEN [calls |-> mesh.calls \o shader_program.calls \o Mesh_drop(mesh.val),
                  next |-> shader_program.next, active |-> <<>>,
                  ok |-> FALSE, val |-> shader_program.val]
            ELSE IF ~texture.ok
            THEN [calls |-> mesh.calls \o shader_program.calls \o texture.calls
                            \o ShaderProgram_drop(shader_program.val) \o Mesh_drop(mesh.val),
                  next |-> texture.next, active |-> shader_program.active,
                  ok |-> FALSE, val |-> texture.val]
            ELSE [calls |-> mesh.calls \o shader_program.calls \o texture.calls,
                  next |-> texture.next, active |-> shader_program.active, ok |-> TRUE,
                  val |-> [mesh |-> mesh.val, shader_program |-> shader_program.val,
                           texture |-> texture.val]]
    IN  Made(Mesh_new(n, ClockFace_VERTICES, ClockFace_INDICES),
             ShaderProgram_from_sources(n + 3, "clockFace", src),
             GPUTexture_from_img_file(n + 6, img))

ClockFace_draw(face) ==
    ShaderProgram_activate(face.shader_program) \o GPUTexture_bind(face.texture)
    \o Mesh_draw(face.mesh)

----------------------------------------------------------------------------
(* Rc<RefCell<T>>: strong count, borrow flag (0 free, -1 mutably borrowed,
   n > 0 shared borrows) and the value *)

Rc_new(value) == [strong |-> 1, borrow |-> 0, value |-> value]

Rc_clone(cell) == [cell EXCEPT !.strong = @ + 1]

(* an Rc whose drop drops the value whatever the count *)
Rc_drop_every(cells, key) ==
    [calls |-> IF key = "mesh" THEN Mesh_drop(cells[key].value)
               ELSE ShaderProgram_drop(cells[key].value),
     cells |-> [cells EXCEPT ![key].strong = @ - 1]]

(* cells: [mesh, shader]; dropping the last Rc drops the value *)
Rc_drop(cells, key) ==
    [calls |-> IF cells[key].strong # 1 THEN <<>>
               ELSE IF key = "mesh" THEN Mesh_drop(cells[key].value)
               ELSE ShaderProgram_drop(cells[key].value),
     cells |-> [cells EXCEPT ![key].strong = @ - 1]]

----------------------------------------------------------------------------
(* ClockHand *)

ClockHand_VERTICES == <<
    Vertex_new(<<0, Milli, 0>>,       <<500, 0>>,       <<0, 0, 0>>),
    Vertex_new(<<Milli, -Milli, 0>>,  <<Milli, Milli>>, <<0, 0, 0>>),
    Vertex_new(<<-Milli, -Milli, 0>>, <<0, Milli>>,     <<0, 0, 0>>) >>

ClockHand_INDICES == <<0, 1, 2>>

(* width scale of a hand, 0.03 *)
HandScaleX == 30

(* 0.5 *)
Half == 500

ClockHand_update_transform(h) ==
    [h EXCEPT !.transform =
        Affine3A_mul(Affine3A_mul(Affine3A_from_rotation_z(h.rotation),
                                  Affine3A_from_translation(<<0, h.length, h.origin[3]>>)),
                     Affine3A_from_scale(<<HandScaleX, h.length, Milli>>))]

ClockHand_new(mesh, shader_program, length, depth, color) ==
    ClockHand_update_transform(
        [mesh |-> mesh, shader_program |-> shader_program, color |-> color,
         length |-> length, mount_point |-> <<0, 0, depth>>,
         target_point |-> <<0, Milli, depth>>,
         origin |-> Vec3_scale(Vec3_add(<<0, 0, depth>>, <<0, Milli, depth>>), Half),
         rotation |-> 0, transform |-> Mat4_IDENTITY])

(* the target point of hand h turned to the stored rotation r *)
ClockHand_target_point(h, r) ==
    <<FMul(Cos(r), h.length), FMul(Sin(r), h.length), h.target_point[3]>>

(* a set_rotation that leaves the transform as it was *)
ClockHand_set_rotation_stale(h, rotation) ==
    [h EXCEPT !.rotation = -rotation,
              !.target_point = ClockHand_target_point(h, -rotation),
              !.origin = Vec3_scale(Vec3_add(h.mount_point,
                                             ClockHand_target_point(h, -rotation)), Half)]

(* rotation: degrees clockwise, in micro-degrees *)
ClockHand_set_rotation(h, rotation) ==
    ClockHand_update_transform(
        [h EXCEPT !.rotation = -rotation,
                  !.target_point = ClockHand_target_point(h, -rotation),
                  !.origin = Vec3_scale(Vec3_add(h.mount_point,
                                                 ClockHand_target_point(h, -rotation)), Half)])

(* the uniform uploads of a hand's draw: transformation, then color *)
ClockHand_set_uniforms(active, shader_program, h) ==
    LET Both(t, c) ==
            [calls |-> t.calls \o c.calls, prog |-> c.prog,
             diag |-> t.diag \o c.diag, panic |-> c.panic]
        First(t) ==
            IF t.panic THEN t
            ELSE Both(t, ShaderProgram_set_vec3(active, t.prog, COLOR, h.color))
    IN  First(ShaderProgram_set_mat4(active, shader_program, TRANSFORMATION, h.transform))

(* shader_program.borrow_mut(): fails when any borrow is outstanding *)
RefCell_borrow_mut(cell) ==
    IF cell.borrow # 0 THEN [ok |-> FALSE, cell |-> cell]
    ELSE [ok |-> TRUE, cell |-> [cell EXCEPT !.borrow = -1]]

(* mesh.borrow(): fails when a mutable borrow is outstanding *)
RefCell_borrow(cell) ==
    IF cell.borrow < 0 THEN [ok |-> FALSE, cell |-> cell]
    ELSE [ok |-> TRUE, cell |-> [cell EXCEPT !.borrow = @ + 1]]

(* the RefMut goes out of scope *)
RefMut_drop(cell) == [cell EXCEPT !.borrow = 0]

(* the Ref goes out of scope *)
Ref_drop(cell) == [cell EXCEPT !.borrow = @ - 1]

(* a draw whose mutable borrow of the program is never released *)
ClockHand_draw_keeps_borrow(active, cells, h) ==
    LET Drawn(shader_program, mesh, u) ==
            [calls |-> ShaderProgram_activate(shader_program.cell.value) \o u.calls
                       \o (IF u.panic THEN <<>> ELSE Mesh_draw(mesh.cell.value)),
             cells |-> [cells EXCEPT
                           ![h.shader_program] = [shader_program.cell EXCEPT !.value = u.prog],
                           ![h.mesh] = Ref_drop(mesh.cell)],
             diag |-> u.diag, panic |-> u.panic]
        Borrowed(shader_program, mesh) ==
            IF ~shader_program.ok \/ ~mesh.ok
            THEN [calls |-> <<>>, cells |-> cells, diag |-> <<>>, panic |-> TRUE]
            ELSE Drawn(shader_program, mesh,
                       ClockHand_set_uniforms(active, shader_program.cell.value, h))
    IN  Borrowed(RefCell_borrow_mut(cells[h.shader_program]), RefCell_borrow(cells[h.mesh]))

(* the program is borrowed mutably and the mesh shared for the length of the
   draw; both borrows end when draw returns or unwinds.  The result is
   [calls, cells, diag, panic] *)
ClockHand_draw(active, cells, h) ==
    LET Drawn(shader_program, mesh, u) ==
            [calls |-> ShaderProgram_activate(shader_program.cell.value) \o u.calls
                       \o (IF u.panic THEN <<>> ELSE Mesh_draw(mesh.cell.value)),
             cells |-> [cells EXCEPT
                           ![h.shader_program] =
                               RefMut_drop([shader_program.cell EXCEPT !.value = u.prog]),
                           ![h.mesh] = Ref_drop(mesh.cell)],
             diag |-> u.diag, panic |-> u.panic]
        Borrowed(shader_program, mesh) ==
            IF ~shader_program.ok \/ ~mesh.ok
            THEN [calls |-> <<>>, cells |-> cells, diag |-> <<>>, panic |-> TRUE]
            ELSE Drawn(shader_program, mesh,
                       ClockHand_set_uniforms(active, shader_program.cell.value, h))
    IN  Borrowed(RefCell_borrow_mut(cells[h.shader_program]), RefCell_borrow(cells[h.mesh]))

(* drop glue: the mesh Rc, then the shader_program Rc *)
ClockHand_drop(cells, h) ==
    LET Both(m, s) == [calls |-> m.calls \o s.calls, cells |-> s.cells]
        First(m) == Both(m, Rc_drop(m.cells, h.shader_program))
    IN  First(Rc_drop(cells, h.mesh))

----------------------------------------------------------------------------
(* AnalogClock *)

SECOND_HAND_COLOR == <<Milli, 0, 0>>

MINUTE_HAND_COLOR == <<0, Milli, 0>>

HOUR_HAND_COLOR == <<0, 0, Milli>>

SecondHandLength == 480

SecondHandDepth == -100

MinuteHandLength == 410

MinuteHandDepth == -200

HourHandLength == 300

HourHandDepth == -300

(* the three Rc handles of a cell left when the constructor's own is dropped *)
Shared(value) ==
    [Rc_clone(Rc_clone(Rc_clone(Rc_new(value)))) EXCEPT !.strong = @ - 1]

(* the result is [calls, next, active, cells, ok, val]; on an early return
   the locals are dropped in reverse order of declaration: clock_hand_mesh,
   then face.  The face takes seven names, the hand mesh three *)
AnalogClock_new(n, face_src, img, hand_src) ==
    LET Made(face, clock_hand_mesh, clock_hand_shader) ==
            IF ~face.ok
            THEN [calls |-> face.calls, next |-> face.next, active |-> face.active,
                  cells |-> None, ok |-> FALSE, val |-> face.val]
            ELSE IF ~clock_hand_shader.ok
            THEN [calls |-> face.calls \o clock_hand_mesh.calls \o clock_hand_shader.calls
                            \o Mesh_drop(clock_hand_mesh.val) \o ClockFace_drop(face.val),
                  next |-> clock_hand_shader.next, active |-> face.active,
                  cells |-> None, ok |-> FALSE, val |-> clock_hand_shader.val]
            ELSE [calls |-> face.calls \o clock_hand_mesh.calls \o clock_hand_shader.calls,
                  next |-> clock_hand_shader.next,
                  active |-> clock_hand_shader.active @@ face.active,
                  cells |-> Some([mesh |-> Shared(clock_hand_mesh.val),
                                  shader |-> Shared(clock_hand_shader.val)]),
                  ok |-> TRUE,
                  val |-> [face |-> face.val,
                           second_hand |-> ClockHand_new("mesh", "shader", SecondHandLength,
                                                         SecondHandDepth, SECOND_HAND_COLOR),
                           minute_hand |-> ClockHand_new("mesh", "shader", MinuteHandLength,
                                                         MinuteHandDepth, MINUTE_HAND_COLOR),
                           hour_hand |-> ClockHand_new("mesh", "shader", HourHandLength,
                                                       HourHandDepth, HOUR_HAND_COLOR)]]
    IN  Made(ClockFace_new(n, face_src, img),
             Mesh_new(n + 7, ClockHand_VERTICES, ClockHand_INDICES),
             ShaderProgram_from_sources(n + 10, "clockHand", hand_src))

(* seconds whole; milliseconds in thousandths of a millisecond; micro-degrees *)
AnalogClock_get_seconds_rotation(seconds, milliseconds) ==
    (seconds * 6 * MicroDeg) + (milliseconds * 6)

(* a minute hand that ignores the seconds *)
AnalogClock_get_minutes_rotation_whole(minutes, seconds, milliseconds) ==
    minutes * 6 * MicroDeg

AnalogClock_get_minutes_rotation(minutes, seconds, milliseconds) ==
    (minutes * 6 * MicroDeg) + (seconds * (MicroDeg \div 10)) + (milliseconds \div 10)

AnalogClock_get_hours_rotation(hours, minutes, seconds) ==
    (hours * 30 * MicroDeg) + (minutes * (MicroDeg \div 2)) + (seconds * 8333)

(* current_time: [hour, minute, second, nanosecond], what Local::now() returned *)
AnalogClock_update(c, current_time) ==
    [c EXCEPT
        !.second_hand = ClockHand_set_rotation(c.second_hand,
            AnalogClock_get_seconds_rotation(current_time.second,
                                             current_time.nanosecond \div 1000)),
        !.minute_hand = ClockHand_set_rotation(c.minute_hand,
            AnalogClock_get_minutes_rotation(current_time.minute, current_time.second,
                                             current_time.nanosecond \div 1000)),
        !.hour_hand = ClockHand_set_rotation(c.hour_hand,
            AnalogClock_get_hours_rotation(current_time.hour % 12, current_time.minute,
                                           current_time.second))]

(* d: the [calls, cells, diag, panic] so far; a panic ends the drawing *)
ThenDraw(active, d, h) ==
    LET Both(r) ==
            [calls |-> d.calls \o r.calls, cells |-> r.cells,
             diag |-> d.diag \o r.diag, panic |-> r.panic]
    IN  IF d.panic THEN d ELSE Both(ClockHand_draw(active, d.cells, h))

(* the hands drawn hour first *)
AnalogClock_draw_reversed(active, cells, c) ==
    ThenDraw(active,
        ThenDraw(active,
            ThenDraw(active,
                [calls |-> ClockFace_draw(c.face), cells |-> cells, diag |-> <<>>, panic |-> FALSE],
                c.hour_hand),
            c.minute_hand),
        c.second_hand)

AnalogClock_draw(active, cells, c) ==
    ThenDraw(active,
        ThenDraw(active,
            ThenDraw(active,
                [calls |-> ClockFace_draw(c.face), cells |-> cells, diag |-> <<>>, panic |-> FALSE],
                c.second_hand),
            c.minute_hand),
        c.hour_hand)

(* drop glue: face, second_hand, minute_hand, hour_hand *)
AnalogClock_drop(cells, c) ==
    LET All(s, m, h) ==
            [calls |-> ClockFace_drop(c.face) \o s.calls \o m.calls \o h.calls,
             cells |-> h.cells]
        Two(s, m) == All(s, m, ClockHand_drop(m.cells, c.hour_hand))
        One(s) == Two(s, ClockHand_drop(s.cells, c.minute_hand))
    IN  One(ClockHand_drop(cells, c.second_hand))

----------------------------------------------------------------------------
(* Renderer *)

RendererOutcomes == {"video", "window", "gl_create_context", "gl_set_swap_interval", "ok"}

(* drop glue: gl_ctx, video_subsystem, window *)
Renderer_drop ==
    <<C("SDL_GL_DeleteContext", 0, <<>>), C("VideoSubsystem.drop", 0, <<>>),
      C("SDL_DestroyWindow", 0, <<>>)>>

(* a constructor that loads the function pointers after its GL setup *)
Renderer_new_loads_late(outcome) ==
    IF outcome = "video"
    THEN [calls |-> <<C("Sdl.video", 0, <<>>)>>, ok |-> FALSE, val |-> Error(outcome, <<>>)]
    ELSE IF outcome = "window"
    THEN [calls |-> <<C("Sdl.video", 0, <<>>), C("SDL_CreateWindow", 0, <<>>),
                      C("VideoSubsystem.drop", 0, <<>>)>>,
          ok |-> FALSE, val |-> Error(outcome, <<>>)]
    ELSE IF outcome = "gl_create_context"
    THEN [calls |-> <<C("Sdl.video", 0, <<>>), C("SDL_CreateWindow", 0, "ok"),
                      C("SDL_GL_CreateContext", 0, <<>>),
                      C("SDL_DestroyWindow", 0, <<>>), C("VideoSubsystem.drop", 0, <<>>)>>,
          ok |-> FALSE, val |-> Error(outcome, <<>>)]
    ELSE IF outcome = "gl_set_swap_interval"
    THEN [calls |-> <<C("Sdl.video", 0, <<>>), C("SDL_CreateWindow", 0, "ok"),
                      C("SDL_GL_CreateContext", 0, "ok"), C("gl::load_with", 0, <<>>),
                      C("SDL_GL_SetSwapInterval", 0, <<>>),
                      C("SDL_GL_DeleteContext", 0, <<>>),
                      C("SDL_DestroyWindow", 0, <<>>), C("VideoSubsystem.drop", 0, <<>>)>>,
          ok |-> FALSE, val |-> Error(outcome, <<>>)]
    ELSE [calls |-> <<C("Sdl.video", 0, <<>>), C("SDL_CreateWindow", 0, "ok"),
                      C("SDL_GL_CreateContext", 0, "ok"),
                      C("SDL_GL_SetSwapInterval", 0, "ok"),
                      C("GetIntegerv", 0, "MAJOR_VERSION"), C("GetIntegerv", 0, "MINOR_VERSION"),
                      C("GetString", 0, "RENDERER"), C("Enable", 0, "MULTISAMPLE"),
                      C("Viewport", 0, <<>>), C("ClearColor", 0, <<>>), C("Clear", 0, <<>>),
                      C("gl::load_with", 0, <<>>)>>,
          ok |-> TRUE, val |-> [gl_ctx |-> TRUE, window |-> TRUE]]

(* outcome: the first step that fails, or "ok"; on an early return the
   locals (video_subsystem, window, gl_ctx) are dropped in reverse order *)
Renderer_new(outcome) ==
    IF outcome = "video"
    THEN [calls |-> <<C("Sdl.video", 0, <<>>)>>, ok |-> FALSE, val |-> Error(outcome, <<>>)]
    ELSE IF outcome = "window"
    THEN [calls |-> <<C("Sdl.video", 0, <<>>), C("SDL_CreateWindow", 0, <<>>),
                      C("VideoSubsystem.drop", 0, <<>>)>>,
          ok |-> FALSE, val |-> Error(outcome, <<>>)]
    ELSE IF outcome = "gl_create_context"
    THEN [calls |-> <<C("Sdl.video", 0, <<>>), C("SDL_CreateWindow", 0, "ok"),
                      C("SDL_GL_CreateContext", 0, <<>>),
                      C("SDL_DestroyWindow", 0, <<>>), C("VideoSubsystem.drop", 0, <<>>)>>,
          ok |-> FALSE, val |-> Error(outcome, <<>>)]
    ELSE IF outcome = "gl_set_swap_interval"
    THEN [calls |-> <<C("Sdl.video", 0, <<>>), C("SDL_CreateWindow", 0, "ok"),
                      C("SDL_GL_CreateContext", 0, "ok"), C("gl::load_with", 0, <<>>),
                      C("SDL_GL_SetSwapInterval", 0, <<>>),
                      C("SDL_GL_DeleteContext", 0, <<>>),
                      C("SDL_DestroyWindow", 0, <<>>), C("VideoSubsystem.drop", 0, <<>>)>>,
          ok |-> FALSE, val |-> Error(outcome, <<>>)]
    ELSE [calls |-> <<C("Sdl.video", 0, <<>>), C("SDL_CreateWindow", 0, "ok"),
                      C("SDL_GL_CreateContext", 0, "ok"), C("gl::load_with", 0, <<>>),
                      C("SDL_GL_SetSwapInterval", 0, "ok"),
                      C("GetIntegerv", 0, "MAJOR_VERSION"), C("GetIntegerv", 0, "MINOR_VERSION"),
                      C("GetString", 0, "RENDERER"), C("Enable", 0, "MULTISAMPLE"),
                      C("Viewport", 0, <<>>), C("ClearColor", 0, <<>>), C("Clear", 0, <<>>)>>,
          ok |-> TRUE, val |-> [gl_ctx |-> TRUE, window |-> TRUE]]

(* a draw that clears after the clock is drawn *)
Renderer_frame_clears_last(d) ==
    IF d.panic THEN d
    ELSE [d EXCEPT !.calls = @ \o <<C("ClearColor", 0, <<>>), C("Clear", 0, <<>>),
                                    C("SDL_GL_SwapWindow", 0, <<>>)>>]

(* the steps of Renderer::draw around the clock's draw d *)
Renderer_frame(d) ==
    IF d.panic
    THEN [d EXCEPT !.calls = <<C("ClearColor", 0, <<>>), C("Clear", 0, <<>>)>> \o @]
    ELSE [d EXCEPT !.calls = <<C("ClearColor", 0, <<>>), C("Clear", 0, <<>>)>> \o @
                               \o <<C("SDL_GL_SwapWindow", 0, <<>>)>>]

(* the result is [calls, cells, diag, panic] *)
Renderer_draw(active, cells, c) == Renderer_frame(AnalogClock_draw(active, cells, c))

----------------------------------------------------------------------------
(* main *)

(* what Local::now() may return *)
Times == {
    [hour |-> 0,  minute |-> 0,  second |-> 0,  nanosecond |-> 0],
    [hour |-> 3,  minute |-> 0,  second |-> 0,  nanosecond |-> 0],
    [hour |-> 15, minute |-> 0,  second |-> 0,  nanosecond |-> 0],
    [hour |-> 0,  minute |-> 30, second |-> 0,  nanosecond |-> 0],
    [hour |-> 0,  minute |-> 0,  second |-> 15, nanosecond |-> 0],
    [hour |-> 0,  minute |-> 0,  second |-> 30, nanosecond |-> 500000000] }

(* what the event queue may hold when it is drained *)
EventBatches == { <<>>, <<"Other">>, <<"Quit">>, <<"Other", "Quit">>, <<"Quit", "Other">> }

(* a loop that does not look for Quit *)
HasQuit_never(events) == FALSE

HasQuit(events) == \E i \in DOMAIN events : events[i] = "Quit"

(* the events poll_iter yields before the loop is left: up to the first Quit *)
Polled(events) ==
    IF HasQuit(events)
    THEN SubSeq(events, 1, CHOOSE i \in DOMAIN events :
                               events[i] = "Quit" /\ \A j \in 1..(i-1) : events[j] # "Quit")
    ELSE events

(* the record of the events polled *)
EventCalls(events) == [i \in DOMAIN events |-> C("Event", 0, events[i])]

Init ==
    /\ pc = "start"
    /\ err = None
    /\ exitCode = -1
    /\ gpu = GpuInit
    /\ stderr = <<>>
    /\ sdl = [ctx |-> FALSE, pump |-> FALSE]
    /\ renderer = None
    /\ clock = None
    /\ rc = None
    /\ frames = 0
    /\ call = None

(* let sdl_context = sdl2::init()? *)
SdlInit ==
    /\ pc = "start"
    /\ \E ok \in BOOLEAN :
        /\ gpu' = [gpu EXCEPT !.calls = Append(@, C("sdl2::init", 0, <<>>))]
        /\ sdl' = [sdl EXCEPT !.ctx = ok]
        /\ err' = IF ok THEN None ELSE Some(Error("sdl2::init", <<>>))
        /\ pc' = IF ok THEN "renderer" ELSE "return"
    /\ UNCHANGED <<exitCode, stderr, renderer, clock, rc, frames, call>>

(* let renderer = Renderer::new(&sdl_context)? *)
RendererNew ==
    /\ pc = "renderer"
    /\ \E outcome \in RendererOutcomes :
        LET Made(r) ==
                /\ gpu' = [gpu EXCEPT !.calls = @ \o r.calls]
                /\ renderer' = IF r.ok THEN Some(r.val) ELSE None
                /\ err' = IF r.ok THEN None ELSE Some(r.val)
                /\ pc' = IF r.ok THEN "clock" ELSE "return"
        IN  Made(Renderer_new(outcome))
    /\ UNCHANGED <<exitCode, stderr, sdl, clock, rc, frames, call>>

(* let mut clock = AnalogClock::new()? *)
AnalogClockNew ==
    /\ pc = "clock"
    /\ \E face_src \in ClockFace_SHADER_SRC, img \in ImageFiles, hand_src \in ClockHand_SHADER_SRC :
        LET Made(r) ==
                /\ gpu' = [calls |-> gpu.calls \o r.calls, nextId |-> r.next,
                           active |-> r.active @@ gpu.active]
                /\ rc' = r.cells
                /\ clock' = IF r.ok THEN Some(r.val) ELSE None
                /\ err' = IF r.ok THEN None ELSE Some(r.val)
                /\ pc' = IF r.ok THEN "pump" ELSE "return"
        IN  Made(AnalogClock_new(gpu.nextId, face_src, img, hand_src))
    /\ UNCHANGED <<exitCode, stderr, sdl, renderer, frames, call>>

(* let mut event_pump = sdl_context.event_pump()? *)
EventPump ==
    /\ pc = "pump"
    /\ \E ok \in BOOLEAN :
        /\ gpu' = [gpu EXCEPT !.calls = Append(@, C("Sdl.event_pump", 0, <<>>))]
        /\ sdl' = [sdl EXCEPT !.pump = ok]
        /\ err' = IF ok THEN None ELSE Some(Error("event_pump", <<>>))
        /\ pc' = IF ok THEN "poll" ELSE "return"
    /\ UNCHANGED <<exitCode, stderr, renderer, clock, rc, frames, call>>

(* for event in event_pump.poll_iter() { if Quit { break 'running } } *)
PollEvents ==
    /\ pc = "poll"
    /\ \E events \in EventBatches :
        /\ frames < MaxFrames \/ HasQuit(events)
        /\ gpu' = [gpu EXCEPT !.calls = @ \o EventCalls(Polled(events))]
        /\ pc' = IF HasQuit(events) THEN "return" ELSE "update"
        /\ frames' = IF HasQuit(events) THEN frames ELSE frames + 1
    /\ UNCHANGED <<err, exitCode, stderr, sdl, renderer, clock, rc, call>>

(* clock.update() *)
ClockUpdate ==
    /\ pc = "update"
    /\ \E current_time \in Times :
        /\ clock' = Some(AnalogClock_update(Get(clock), current_time))
        /\ gpu' = [gpu EXCEPT !.calls = Append(@, C("AnalogClock.update", 0, current_time))]
    /\ pc' = "draw"
    /\ UNCHANGED <<err, exitCode, stderr, sdl, renderer, rc, frames, call>>

(* renderer.draw(&clock) *)
RendererDraw ==
    /\ pc = "draw"
    /\ LET Drawn(d) ==
               /\ gpu' = [gpu EXCEPT !.calls = @ \o d.calls]
               /\ rc' = Some(d.cells)
               /\ stderr' = stderr \o d.diag
               /\ err' = IF d.panic THEN Some(Error("panic", <<>>)) ELSE None
               /\ pc' = IF d.panic THEN "return" ELSE "poll"
       IN  Drawn(Renderer_draw(gpu.active, Get(rc), Get(clock)))
    /\ UNCHANGED <<exitCode, sdl, renderer, clock, frames, call>>

(* what dropping main's locals issues, in reverse order of declaration:
   event_pump, clock, renderer, sdl_context *)
MainDrops ==
    (IF sdl.pump THEN <<C("EventPump.drop", 0, <<>>)>> ELSE <<>>)
    \o (IF IsSome(clock) THEN AnalogClock_drop(Get(rc), Get(clock)).calls ELSE <<>>)
    \o (IF IsSome(renderer) THEN Renderer_drop ELSE <<>>)
    \o (IF sdl.ctx THEN <<C("Sdl.drop", 0, <<>>)>> ELSE <<>>)

(* a main that swallows its error *)
ExitCodeOf_zero(e) == 0

(* the exit code of main returning err: Ok is 0, Err is 1, a panic is 101 *)
ExitCodeOf(e) == IF e = None THEN 0 ELSE IF Get(e).kind = "panic" THEN 101 ELSE 1

(* main returns or unwinds: its locals are dropped, an Err is printed, and
   the process exits *)
MainReturn ==
    /\ pc = "return"
    /\ gpu' = [gpu EXCEPT !.calls = @ \o MainDrops]
    /\ rc' = None
    /\ clock' = None
    /\ renderer' = None
    /\ sdl' = [ctx |-> FALSE, pump |-> FALSE]
    /\ stderr' = IF IsSome(err) /\ Get(err).kind # "panic"
                 THEN Append(stderr, [kind |-> "Error", reason |-> Get(err)]) ELSE stderr
    /\ exitCode' = ExitCodeOf(err)
    /\ pc' = "exited"
    /\ UNCHANGED <<err, frames, call>>

Next ==
    \/ SdlInit
    \/ RendererNew
    \/ AnalogClockNew
    \/ EventPump
    \/ PollEvents
    \/ ClockUpdate
    \/ RendererDraw
    \/ MainReturn

Spec == Init /\ [][Next]_vars

----------------------------------------------------------------------------
(* The uniform setters, called with any name on the hand program of a clock
   whose hand shaders declare any of the two uniforms *)

(* "colour", a misspelling; and a name with an interior zero byte *)
UniformNames == { TRANSFORMATION, COLOR, <<99, 111, 108, 111, 117, 114>>, <<97, 0, 98>> }

(* the active uniforms the linked hand program may have *)
HandUniformSets ==
    { <<>>, (TRANSFORMATION :> 0), (COLOR :> 0), (TRANSFORMATION :> 0) @@ (COLOR :> 1) }

Setters == {"set_mat4", "set_mat4_array", "set_vec3", "set_vec2"}

(* sources that compile and link, declaring uniforms *)
LinkedSource(uniforms) ==
    [vertex |-> [nul |-> FALSE, compiles |-> TRUE, log |-> <<>>],
     fragment |-> [nul |-> FALSE, compiles |-> TRUE, log |-> <<>>],
     links |-> TRUE, link_log |-> <<>>, uniforms |-> uniforms]

ApplySetter(setter, active, prog, name) ==
    CASE setter = "set_mat4" -> ShaderProgram_set_mat4(active, prog, name, Mat4_IDENTITY)
      [] setter = "set_mat4_array" ->
            ShaderProgram_set_mat4_array(active, prog, name, <<Mat4_IDENTITY, Mat4_IDENTITY>>)
      [] setter = "set_vec3" -> ShaderProgram_set_vec3(active, prog, name, <<Milli, Milli, 0>>)
      [] setter = "set_vec2" -> ShaderProgram_set_vec2(active, prog, name, <<Milli, 0>>)

InitUniform ==
    /\ pc = "harness"
    /\ err = None
    /\ exitCode = -1
    /\ stderr = <<>>
    /\ sdl = [ctx |-> TRUE, pump |-> FALSE]
    /\ renderer = Some(Renderer_new("ok").val)
    /\ frames = 0
    /\ call = None
    /\ \E uniforms \in HandUniformSets :
        LET Made(r) ==
                /\ gpu = [calls |-> r.calls, nextId |-> r.next, active |-> r.active]
                /\ rc = r.cells
                /\ clock = Some(r.val)
        IN  Made(AnalogClock_new(1, LinkedSource(<<>>),
                                 [is_file |-> TRUE, decodes |-> TRUE, color |-> "Rgba8"],
                                 LinkedSource(uniforms)))

(* shader_program.borrow_mut().set_*(name, value) *)
UniformSet ==
    /\ pc = "harness"
    /\ frames < MaxCalls
    /\ \E setter \in Setters, name \in UniformNames :
        LET Done(before, r) ==
                /\ gpu' = [gpu EXCEPT !.calls = @ \o r.calls]
                /\ rc' = Some([Get(rc) EXCEPT !.shader.value = r.prog])
                /\ stderr' = stderr \o r.diag
                /\ call' = Some([setter |-> setter, name |-> name, before |-> before,
                                 result |-> r])
                /\ err' = IF r.panic THEN Some(Error("panic", <<>>)) ELSE None
                /\ pc' = IF r.panic THEN "panicked" ELSE "harness"
        IN  Done(Get(rc).shader.value,
                 ApplySetter(setter, gpu.active, Get(rc).shader.value, name))
    /\ frames' = frames + 1
    /\ UNCHANGED <<exitCode, sdl, renderer, clock>>

(* second_hand.draw() *)
UniformDraw ==
    /\ pc = "harness"
    /\ frames < MaxCalls
    /\ LET Done(before, d) ==
               /\ gpu' = [gpu EXCEPT !.calls = @ \o d.calls]
               /\ rc' = Some(d.cells)
               /\ stderr' = stderr \o d.diag
               /\ call' = Some([setter |-> "draw", name |-> <<>>, before |-> before,
                                result |-> [calls |-> d.calls, prog |-> d.cells.shader.value,
                                            diag |-> d.diag, panic |-> d.panic]])
               /\ err' = IF d.panic THEN Some(Error("panic", <<>>)) ELSE None
               /\ pc' = IF d.panic THEN "panicked" ELSE "harness"
       IN  Done(Get(rc).shader.value,
                ClockHand_draw(gpu.active, Get(rc), Get(clock).second_hand))
    /\ frames' = frames + 1
    /\ UNCHANGED <<exitCode, sdl, renderer, clock>>

NextUniform ==
    \/ UniformSet
    \/ UniformDraw

SpecUniform == InitUniform /\ [][NextUniform]_vars

----------------------------------------------------------------------------
(* Reading the record of calls *)

(* the delete call that matches each creating call of a wrapper *)
DeleteOf ==
    [op \in {"GenBuffers", "GenVertexArrays", "GenTextures", "CreateProgram"} |->
        CASE op = "GenBuffers" -> "DeleteBuffers"
          [] op = "GenVertexArrays" -> "DeleteVertexArrays"
          [] op = "GenTextures" -> "DeleteTextures"
          [] op = "CreateProgram" -> "DeleteProgram"]

DeleteOps == {"DeleteBuffers", "DeleteVertexArrays", "DeleteTextures", "DeleteProgram"}

(* the positions at which op is issued on object h *)
Positions(op, h) == {i \in DOMAIN gpu.calls : gpu.calls[i].op = op /\ gpu.calls[i].h = h}

(* the positions at which an op of ops is issued *)
PositionsOf(ops) == {i \in DOMAIN gpu.calls : gpu.calls[i].op \in ops}

(* the last position at or before i at which an op of ops is issued, or 0 *)
RECURSIVE LastBefore(_, _)
LastBefore(ops, i) ==
    IF i = 0 THEN 0
    ELSE IF gpu.calls[i].op \in ops THEN i
    ELSE LastBefore(ops, i - 1)

(* the first position at or after i at which an op of ops is issued, or 0 *)
RECURSIVE FirstAfter(_, _)
FirstAfter(ops, i) ==
    IF i > Len(gpu.calls) THEN 0
    ELSE IF gpu.calls[i].op \in ops THEN i
    ELSE FirstAfter(ops, i + 1)

----------------------------------------------------------------------------
(* C1.  Every handle a wrapper creates (GenBuffers, GenVertexArrays,
   GenTextures, CreateProgram) gets its matching delete call exactly once
   over a run: never twice, and once the process has exited, not zero
   times.  This is the claim as stated; it fails when a program fails to
   link: from_sources returns the error without wrapping the program it
   created, so no DeleteProgram is ever issued for it. *)
C1_DeletedExactlyOnce ==
    \A i \in PositionsOf(DOMAIN DeleteOf) :
        /\ Cardinality(Positions(DeleteOf[gpu.calls[i].op], gpu.calls[i].h)) <= 1
        /\ pc = "exited" =>
              Cardinality(Positions(DeleteOf[gpu.calls[i].op], gpu.calls[i].h)) = 1

----------------------------------------------------------------------------
(* C2.  No call is issued on a handle after that handle's delete call; and
   while the clock lives, the mesh and the program the three hands share are
   held by three handles and not deleted, the drops of the second and of the
   minute hand issue no call, and the drop of the hour hand, the last one,
   deletes the mesh and then the program. *)
C2_LastHandDeletes(cells, c) ==
    LET After(s, m, h) ==
            /\ s.calls = <<>>
            /\ m.calls = <<>>
            /\ h.calls = Mesh_drop(cells.mesh.value) \o ShaderProgram_drop(cells.shader.value)
            /\ h.cells.mesh.strong = 0 /\ h.cells.shader.strong = 0
        Two(s, m) == After(s, m, ClockHand_drop(m.cells, c.hour_hand))
        One(s) == Two(s, ClockHand_drop(s.cells, c.minute_hand))
    IN  One(ClockHand_drop(cells, c.second_hand))

C2_NoUseAfterDelete ==
    /\ \A d \in PositionsOf(DeleteOps) :
          \A j \in (d + 1)..Len(gpu.calls) : gpu.calls[j].h # gpu.calls[d].h
    /\ IsSome(clock) =>
          /\ Get(rc).mesh.strong = 3 /\ Get(rc).shader.strong = 3
          /\ Positions("DeleteVertexArrays", Get(rc).mesh.value.vertex_array_object) = {}
          /\ Positions("DeleteProgram", Get(rc).shader.value.id) = {}
          /\ C2_LastHandDeletes(Get(rc), Get(clock))

(* a run that drew a frame and then quit, the shared mesh and program deleted *)
C2_Witness ==
    /\ pc = "exited" /\ exitCode = 0 /\ frames >= 1
    /\ \E d \in PositionsOf({"DeleteProgram"}) :
          /\ Positions("UseProgram", gpu.calls[d].h) # {}
          /\ \E v \in PositionsOf({"DeleteVertexArrays"}) :
                v < d /\ Cardinality(Positions("DrawElements", gpu.calls[v].h)) >= 3

----------------------------------------------------------------------------
(* C3.  A setter called with a name the linked program has no uniform of
   returns normally (no panic), uploads nothing, emits a diagnostic and
   leaves the program's handle and location cache as they were; and a draw
   after it succeeds.  This is the claim as stated; it fails for a name with
   an interior zero byte, which no program has a uniform of: CString::new
   fails on it and the expect in get_uniform_location panics. *)
UniformOps == {"UniformMatrix4fv", "Uniform3fv", "Uniform2fv"}

C3_AbsentUniformIsNoOp ==
    IsSome(call) =>
        /\ (Get(call).setter \in Setters
            /\ UniformLocation(gpu.active, Get(call).before.id, Get(call).name) < 0) =>
              /\ ~Get(call).result.panic
              /\ \A i \in DOMAIN Get(call).result.calls :
                    Get(call).result.calls[i].op \notin UniformOps
              /\ Get(call).result.diag # <<>>
              /\ Get(call).result.prog = Get(call).before
        /\ Get(call).setter = "draw" =>
              /\ ~Get(call).result.panic
              /\ \E i \in DOMAIN Get(call).result.calls :
                    Get(call).result.calls[i].op = "DrawElements"

----------------------------------------------------------------------------
(* C4.  Handles are released in reverse-dependency order on every path: when
   a program is deleted, the vertex array and the buffers of the mesh made
   for it (those generated since the program before it was created) are
   already deleted; and every delete call comes before the GL context is
   destroyed.  This is the claim as stated; it fails when the face texture
   cannot be loaded: ClockFace::new returns with its locals dropped in
   reverse order of declaration, the program before the mesh. *)
C4_MeshBeforeProgram(d) ==
    LET Made(p) ==
            \A g \in PositionsOf({"GenBuffers", "GenVertexArrays"}) :
                (LastBefore({"CreateProgram"}, p - 1) < g /\ g < p) =>
                    \E x \in Positions(DeleteOf[gpu.calls[g].op], gpu.calls[g].h) : x < d
    IN  \A p \in Positions("CreateProgram", gpu.calls[d].h) : Made(p)

C4_ReverseDependencyOrder ==
    /\ \A d \in PositionsOf({"DeleteProgram"}) : C4_MeshBeforeProgram(d)
    /\ \A x \in PositionsOf({"SDL_GL_DeleteContext"}) :
          \A d \in PositionsOf(DeleteOps) : d < x

----------------------------------------------------------------------------
(* the positions at which a Quit event was polled *)
QuitPositions == {i \in PositionsOf({"Event"}) : gpu.calls[i].x = "Quit"}

(* what an iteration of the loop issues: polling, update, draw, present *)
LoopOps ==
    {"Event", "AnalogClock.update", "ClearColor", "Clear", "UseProgram", "BindTexture",
     "BindVertexArray", "GetUniformLocation", "DrawElements", "SDL_GL_SwapWindow"}
    \cup UniformOps

(* C5.  Once a Quit event is polled the loop is left: nothing of an
   iteration (no further event, update, clear, upload, draw or present)
   follows it, main is returning without an error and can always finish
   returning; and once the process has exited, its exit code is 0, every
   handle created has been deleted exactly once, and the GL context, the
   window and SDL have been released. *)
C5_QuitEndsTheLoop ==
    \A q \in QuitPositions :
        /\ \A j \in (q + 1)..Len(gpu.calls) : gpu.calls[j].op \notin LoopOps
        /\ pc \in {"return", "exited"}
        /\ err = None
        /\ pc = "return" => ENABLED MainReturn
        /\ pc = "exited" =>
              /\ exitCode = 0
              /\ \A i \in PositionsOf(DOMAIN DeleteOf) :
                    \E d \in Positions(DeleteOf[gpu.calls[i].op], gpu.calls[i].h) :
                        /\ q < d
                        /\ Positions(DeleteOf[gpu.calls[i].op], gpu.calls[i].h) = {d}
              /\ \A op \in {"EventPump.drop", "SDL_GL_DeleteContext", "SDL_DestroyWindow",
                            "Sdl.drop"} :
                    \E d \in PositionsOf({op}) : q < d /\ PositionsOf({op}) = {d}

(* the process has exited after a Quit polled in the third iteration, with
   another event before it in the batch *)
C5_Witness ==
    /\ pc = "exited" /\ frames = 2
    /\ \E q \in QuitPositions : gpu.calls[q - 1].op = "Event"

----------------------------------------------------------------------------
(* the steps of construction, each of which the program makes once per
   object it builds: two programs of two stages, one texture *)
ConstructionOps ==
    [op \in {"sdl2::init", "Sdl.video", "SDL_CreateWindow", "SDL_GL_CreateContext",
             "gl::load_with", "SDL_GL_SetSwapInterval", "GenTextures", "Sdl.event_pump"}
        |-> 1]
    @@ [op \in {"CreateProgram", "LinkProgram", "GenVertexArrays"} |-> 2]
    @@ [op \in {"CreateShader", "CompileShader"} |-> 4]

(* C6.  When a construction step has failed, main is returning that error:
   the loop was never entered (no event polled, no update, draw or present),
   no step of construction was made again, and once the process has exited
   its exit code is not 0 and the error was printed last. *)
C6_ConstructionFailureIsFatal ==
    (IsSome(err) /\ Get(err).kind # "panic") =>
        /\ pc \in {"return", "exited"}
        /\ frames = 0
        /\ PositionsOf({"Event", "AnalogClock.update", "DrawElements", "UseProgram",
                        "SDL_GL_SwapWindow"}) = {}
        /\ \A op \in DOMAIN ConstructionOps :
              Cardinality(PositionsOf({op})) <= ConstructionOps[op]
        /\ pc = "exited" =>
              /\ exitCode # 0
              /\ stderr # <<>>
              /\ stderr[Len(stderr)] = [kind |-> "Error", reason |-> Get(err)]

(* the process has exited on a texture that could not be decoded *)
C6_Witness ==
    /\ pc = "exited" /\ exitCode = 1
    /\ IsSome(err) /\ Get(err).kind = "image decode error"

----------------------------------------------------------------------------
(* the positions of an op of ops strictly between b and s *)
Between(ops, b, s) == {i \in (b + 1)..(s - 1) : gpu.calls[i].op \in ops}

(* where the iteration that presents at s began: the present before it, or
   the making of the event pump *)
FrameStart(s) == LastBefore({"Sdl.event_pump", "SDL_GL_SwapWindow"}, s - 1)

(* C7, as stated.  In every iteration that presents a frame, the buffer is
   cleared, then the clock is updated, then drawn, then the frame presented.
   It fails: the clear is the first step of Renderer::draw, which main calls
   after clock.update(). *)
C7_ClearThenUpdate ==
    \A s \in PositionsOf({"SDL_GL_SwapWindow"}) :
        \E c \in Between({"Clear"}, FrameStart(s), s) :
            \E u \in Between({"AnalogClock.update"}, FrameStart(s), s) :
                /\ c < u
                /\ \A d \in Between({"DrawElements"}, FrameStart(s), s) : u < d

(* C7, amended.  In every iteration that presents a frame there is exactly
   one update and exactly one clear, in the order: update, clear, the draw
   calls of the clock, present. *)
C7_UpdateThenClear ==
    \A s \in PositionsOf({"SDL_GL_SwapWindow"}) :
        /\ Between({"DrawElements"}, FrameStart(s), s) # {}
        /\ \E u \in Between({"AnalogClock.update"}, FrameStart(s), s) :
              \E c \in Between({"Clear"}, FrameStart(s), s) :
                  /\ Between({"AnalogClock.update"}, FrameStart(s), s) = {u}
                  /\ Between({"Clear"}, FrameStart(s), s) = {c}
                  /\ u < c
                  /\ \A d \in Between({"DrawElements"}, FrameStart(s), s) : c < d

(* two frames have been presented *)
C7_Witness ==
    /\ pc = "poll" /\ frames = 2
    /\ Cardinality(PositionsOf({"SDL_GL_SwapWindow"})) = 2

----------------------------------------------------------------------------
(* the draw call at d is that of hand h: it draws the shared mesh, and since
   the draw call before it (at prev) the shared program was made current and
   given the transform and the color of h, nothing else *)
C8_HandDrawnAt(d, prev, h) ==
    /\ gpu.calls[d].h = Get(rc).mesh.value.vertex_array_object
    /\ Between({"UseProgram"}, prev, d) = {LastBefore({"UseProgram"}, d)}
    /\ gpu.calls[LastBefore({"UseProgram"}, d)].h = Get(rc).shader.value.id
    /\ Between({"UniformMatrix4fv"}, prev, d) = {LastBefore({"UniformMatrix4fv"}, d)}
    /\ LastBefore({"UseProgram"}, d) < LastBefore({"UniformMatrix4fv"}, d)
    /\ gpu.calls[LastBefore({"UniformMatrix4fv"}, d)].x =
          [location |-> UniformLocation(gpu.active, Get(rc).shader.value.id, TRANSFORMATION),
           value |-> h.transform]
    /\ Between({"Uniform3fv"}, prev, d) = {LastBefore({"Uniform3fv"}, d)}
    /\ LastBefore({"UseProgram"}, d) < LastBefore({"Uniform3fv"}, d)
    /\ gpu.calls[LastBefore({"Uniform3fv"}, d)].x =
          [location |-> UniformLocation(gpu.active, Get(rc).shader.value.id, COLOR),
           value |-> h.color]

(* the four draw calls after the clear at c are the face, the second hand,
   the minute hand and the hour hand, and there is no fifth *)
C8_FrameDrawn(c) ==
    LET Four(d1, d2, d3, d4) ==
            /\ d1 # 0 /\ d2 # 0 /\ d3 # 0 /\ d4 # 0
            /\ FirstAfter({"DrawElements"}, d4 + 1) = 0
            /\ gpu.calls[d1].h = Get(clock).face.mesh.vertex_array_object
            /\ Between({"UseProgram"}, c, d1) # {}
            /\ gpu.calls[LastBefore({"UseProgram"}, d1)].h = Get(clock).face.shader_program.id
            /\ C8_HandDrawnAt(d2, d1, Get(clock).second_hand)
            /\ C8_HandDrawnAt(d3, d2, Get(clock).minute_hand)
            /\ C8_HandDrawnAt(d4, d3, Get(clock).hour_hand)
        Three(d1, d2, d3) == Four(d1, d2, d3, FirstAfter({"DrawElements"}, d3 + 1))
        Two(d1, d2) == d2 # 0 /\ Three(d1, d2, FirstAfter({"DrawElements"}, d2 + 1))
        One(d1) == d1 # 0 /\ Two(d1, FirstAfter({"DrawElements"}, d1 + 1))
    IN  One(FirstAfter({"DrawElements"}, c))

(* C8.  When a frame has just been drawn, the draw calls since its clear are
   four, in the order face, second hand, minute hand, hour hand, and each
   hand's draw call follows the upload of that hand's own transform and
   color to the shared program. *)
C8_DrawOrder ==
    (pc = "poll" /\ frames > 0) => C8_FrameDrawn(LastBefore({"Clear"}, Len(gpu.calls)))

(* a second frame has been drawn with the hands at three different angles *)
C8_Witness ==
    /\ pc = "poll" /\ frames = 2
    /\ Get(clock).second_hand.rotation # 0
    /\ Get(clock).minute_hand.rotation # Get(clock).second_hand.rotation
    /\ Get(clock).hour_hand.rotation # Get(clock).minute_hand.rotation
    /\ C8_FrameDrawn(LastBefore({"Clear"}, Len(gpu.calls)))

----------------------------------------------------------------------------
(* the stage whose info log is read at i *)
StageAt(i) == LastBefore({"CreateShader"}, i)

(* the fragment stages that failed to compile: where their info log is read *)
FailedFragments ==
    {i \in PositionsOf({"GetShaderInfoLog"}) : gpu.calls[StageAt(i)].x = "FRAGMENT_SHADER"}

(* C9.  When the fragment stage fails to compile after the vertex stage
   compiled, the next and last call of from_sources deletes the vertex
   shader (once), no program object is created for these stages, and the
   error returned, which main is returning, carries the compiler's
   diagnostic. *)
C9_FragmentFailure ==
    \A i \in FailedFragments :
        /\ StageAt(StageAt(i) - 1) # 0
        /\ gpu.calls[StageAt(StageAt(i) - 1)].x = "VERTEX_SHADER"
        /\ i < Len(gpu.calls)
        /\ gpu.calls[i + 1] = C("DeleteShader", gpu.calls[StageAt(StageAt(i) - 1)].h, <<>>)
        /\ Positions("DeleteShader", gpu.calls[StageAt(StageAt(i) - 1)].h) = {i + 1}
        /\ \A j \in (StageAt(StageAt(i) - 1))..Len(gpu.calls) :
              gpu.calls[j].op \notin {"CreateProgram", "AttachShader", "LinkProgram"}
        /\ err = Some(Error("info log", CompileLog))

(* the hand program's fragment stage failed after the face was built *)
C9_Witness ==
    /\ pc = "exited"
    /\ FailedFragments # {}
    /\ PositionsOf({"GenTextures"}) # {}

----------------------------------------------------------------------------
(* the hands of the clock *)
Hands(c) == {c.second_hand, c.minute_hand, c.hour_hand}

(* C10, as stated.  After update has set the rotations, a hand set to 0
   degrees has its target point at (0, length, depth) and a hand set to 90
   degrees has it at (length, 0, depth).  It fails: set_rotation takes the
   target from the cosine and the sine of the negated angle, measured from
   the x axis, so 0 degrees gives (length, 0, depth) and 90 degrees gives
   (0, -length, depth). *)
C10_TargetAtQuarterTurns ==
    (pc = "draw") =>
        \A h \in Hands(Get(clock)) :
            /\ h.rotation = 0 =>
                  h.target_point = <<0, h.length, h.mount_point[3]>>
            /\ h.rotation = -(90 * MicroDeg) =>
                  h.target_point = <<h.length, 0, h.mount_point[3]>>

----------------------------------------------------------------------------
(* AnalogClock::update at any time of day, on a clock as AnalogClock::new
   builds it *)

(* the times Local::now() is drawn from: whole milliseconds *)
TimesOfDay ==
    { [hour |-> h, minute |-> m, second |-> sec, nanosecond |-> ms * (10 ^ 6)] :
        h \in {0, 3, 15, 23}, m \in {0, 30, 59}, sec \in {0, 30, 59},
        ms \in {0, 500, 999} }

InitTime ==
    /\ pc = "time"
    /\ err = None
    /\ exitCode = -1
    /\ stderr = <<>>
    /\ sdl = [ctx |-> TRUE, pump |-> FALSE]
    /\ renderer = Some(Renderer_new("ok").val)
    /\ frames = 0
    /\ call = None
    /\ LET Made(r) ==
               /\ gpu = [calls |-> r.calls, nextId |-> r.next, active |-> r.active]
               /\ rc = r.cells
               /\ clock = Some(r.val)
       IN  Made(AnalogClock_new(1, LinkedSource(<<>>),
                                [is_file |-> TRUE, decodes |-> TRUE, color |-> "Rgba8"],
                                LinkedSource((TRANSFORMATION :> 0) @@ (COLOR :> 1))))

(* clock.update() with Local::now() = current_time *)
TimeUpdate ==
    /\ pc = "time"
    /\ frames < MaxUpdates
    /\ \E current_time \in TimesOfDay :
        /\ clock' = Some(AnalogClock_update(Get(clock), current_time))
        /\ call' = Some([setter |-> "update", time |-> current_time])
    /\ frames' = frames + 1
    /\ UNCHANGED <<pc, err, exitCode, gpu, stderr, sdl, renderer, rc>>

NextTime == TimeUpdate

SpecTime == InitTime /\ [][NextTime]_vars

(* the whole milliseconds of a time *)
MillisOf(t) == t.nanosecond \div (10 ^ 6)

(* C11.  After update at a time of day (h, m, s, ms) the second hand was set
   to s*6 + ms*0.006 degrees, the minute hand to m*6 + s*0.1 + ms*0.0001 and
   the hour hand to (h mod 12)*30 + m*0.5 + s*0.008333, here in millionths
   of a degree and stored negated; 03:00:00.000 gives hours 90, minutes 0,
   seconds 0; 00:30:00.000 gives hours 15 and minutes 180; 00:00:30.500
   gives seconds 183; and 15:00:00 gives what 03:00:00 gives. *)
C11_TimeToAngles ==
    IsSome(call) =>
        /\ -Get(clock).second_hand.rotation =
              (Get(call).time.second * 6000000) + (MillisOf(Get(call).time) * 6000)
        /\ -Get(clock).minute_hand.rotation =
              (Get(call).time.minute * 6000000) + (Get(call).time.second * 100000)
              + (MillisOf(Get(call).time) * 100)
        /\ -Get(clock).hour_hand.rotation =
              ((Get(call).time.hour % 12) * 30000000) + (Get(call).time.minute * 500000)
              + (Get(call).time.second * 8333)
        /\ (Get(call).time.hour \in {3, 15} /\ Get(call).time.minute = 0
            /\ Get(call).time.second = 0 /\ Get(call).time.nanosecond = 0) =>
              /\ Get(clock).hour_hand.rotation = -90000000
              /\ Get(clock).minute_hand.rotation = 0
              /\ Get(clock).second_hand.rotation = 0
        /\ (Get(call).time.hour = 0 /\ Get(call).time.minute = 30
            /\ Get(call).time.second = 0 /\ Get(call).time.nanosecond = 0) =>
              /\ Get(clock).hour_hand.rotation = -15000000
              /\ Get(clock).minute_hand.rotation = -180000000
        /\ (Get(call).time.second = 30 /\ MillisOf(Get(call).time) = 500) =>
              Get(clock).second_hand.rotation = -183000000

(* update has run a second time, at 15:00:00.000 *)
C11_Witness ==
    /\ IsSome(call) /\ frames = 2
    /\ Get(call).time = [hour |-> 15, minute |-> 0, second |-> 0, nanosecond |-> 0]
    /\ Get(clock).hour_hand.rotation = -90000000

----------------------------------------------------------------------------
(* Mesh::make_rect with any arguments, next to a clock as AnalogClock::new
   builds it *)

RectSizes == {0, 500, 1000, 2000}

RectUVs == { <<>>, << <<0, 0>> >>, << <<250, 750>> >>, << <<Milli, Milli>> >> }

InitRect ==
    /\ pc = "rect"
    /\ err = None
    /\ exitCode = -1
    /\ stderr = <<>>
    /\ sdl = [ctx |-> TRUE, pump |-> FALSE]
    /\ renderer = Some(Renderer_new("ok").val)
    /\ frames = 0
    /\ call = None
    /\ LET Made(r) ==
               /\ gpu = [calls |-> r.calls, nextId |-> r.next, active |-> r.active]
               /\ rc = r.cells
               /\ clock = Some(r.val)
       IN  Made(AnalogClock_new(1, LinkedSource(<<>>),
                                [is_file |-> TRUE, decodes |-> TRUE, color |-> "Rgb8"],
                                LinkedSource((TRANSFORMATION :> 0) @@ (COLOR :> 1))))

(* rect = Mesh::make_rect(width, height, uv_top_left, uv_bottom_right): the
   rectangle held before is dropped once the new one is made *)
MakeRect ==
    /\ pc = "rect"
    /\ frames < MaxRects
    /\ \E width \in RectSizes, height \in RectSizes, uv_top_left \in RectUVs,
          uv_bottom_right \in RectUVs :
        LET Made(m) ==
                /\ gpu' = [gpu EXCEPT
                              !.calls = @ \o m.calls
                                        \o (IF IsSome(call) THEN Mesh_drop(Get(call).mesh)
                                            ELSE <<>>),
                              !.nextId = m.next]
                /\ call' = Some([setter |-> "make_rect", mesh |-> m.val])
        IN  Made(Mesh_make_rect(gpu.nextId, width, height, uv_top_left, uv_bottom_right))
    /\ frames' = frames + 1
    /\ UNCHANGED <<pc, err, exitCode, stderr, sdl, renderer, clock, rc>>

NextRect == MakeRect

SpecRect == InitRect /\ [][NextRect]_vars

(* every index of the mesh is the position of one of its vertices *)
IndicesInRange(mesh) ==
    \A i \in DOMAIN mesh.indices :
        0 <= mesh.indices[i] /\ mesh.indices[i] < Len(mesh.vertices)

(* C12.  Every mesh there is has all its indices below its vertex count:
   the face mesh, the hand mesh, and every rectangle make_rect builds, which
   has 4 vertices and the 6 indices 0,1,3, 1,2,3. *)
C12_IndicesInRange ==
    /\ IndicesInRange(Get(clock).face.mesh)
    /\ IndicesInRange(Get(rc).mesh.value)
    /\ IsSome(call) =>
          /\ Len(Get(call).mesh.vertices) = 4
          /\ Get(call).mesh.indices = <<0, 1, 3, 1, 2, 3>>
          /\ IndicesInRange(Get(call).mesh)

(* a rectangle of no width with texture coordinates given has been built *)
C12_Witness ==
    /\ IsSome(call)
    /\ Get(call).mesh.vertices[1].position = <<0, 500, 0>>
    /\ Get(call).mesh.vertices[4].texture_coordinate = <<250, 750>>
    /\ Len(Get(clock).face.mesh.indices) = 6

----------------------------------------------------------------------------
(* the errors of GPUTexture::from_img_file *)
TextureErrors ==
    {"Image path does not lead to a regular file", "image decode error",
     "Unsupported color format"}

(* C13.  from_img_file fails exactly when the path is no regular file, the
   image does not decode, or its color type is neither Rgb8 nor Rgba8, and
   then it issues no call at all (no GenTextures); when it succeeds it
   generates exactly one texture, the one the returned object holds.  In the
   program: when main returns a texture error no texture was ever generated,
   and while the clock lives exactly one was, the face's. *)
C13_TextureErrors ==
    /\ \A img \in ImageFiles :
          /\ GPUTexture_from_img_file(gpu.nextId, img).ok
                <=> (img.is_file /\ img.decodes /\ img.color \in {"Rgb8", "Rgba8"})
          /\ ~GPUTexture_from_img_file(gpu.nextId, img).ok =>
                /\ GPUTexture_from_img_file(gpu.nextId, img).calls = <<>>
                /\ GPUTexture_from_img_file(gpu.nextId, img).next = gpu.nextId
                /\ GPUTexture_from_img_file(gpu.nextId, img).val.kind \in TextureErrors
          /\ GPUTexture_from_img_file(gpu.nextId, img).ok =>
                /\ GPUTexture_from_img_file(gpu.nextId, img).val.id = gpu.nextId
                /\ \A i \in DOMAIN GPUTexture_from_img_file(gpu.nextId, img).calls :
                      GPUTexture_from_img_file(gpu.nextId, img).calls[i].op = "GenTextures"
                          <=> i = 1
                /\ GPUTexture_from_img_file(gpu.nextId, img).calls[1].h = gpu.nextId
    /\ (IsSome(err) /\ Get(err).kind \in TextureErrors) =>
          PositionsOf({"GenTextures", "BindTexture", "TexImage2D", "DeleteTextures"}) = {}
    /\ IsSome(clock) =>
          \E g \in Positions("GenTextures", Get(clock).face.texture.id) :
              PositionsOf({"GenTextures"}) = {g}

(* main has returned the error of a grayscale face texture *)
C13_Witness ==
    /\ pc = "exited"
    /\ IsSome(err) /\ Get(err).kind = "Unsupported color format"
    /\ PositionsOf({"CreateProgram"}) # {}

----------------------------------------------------------------------------
(* C14, as stated.  A draw leaves all state of the clock as it was: the
   hands, the face, and the shared mesh and program with its cache of
   uniform locations.  It fails on the first draw: ClockHand::draw borrows
   the shared program mutably and its setters insert the locations of
   transformation and color into the cache. *)
C14_DrawNeverMutates == [][pc = "draw" => (clock' = clock /\ rc' = rc)]_vars

(* the cache new holds all of old, unchanged *)
CacheExtends(old, new) ==
    \A name \in DOMAIN old : name \in DOMAIN new /\ new[name] = old[name]

(* C14, amended.  A draw leaves the hands, the face, the shared mesh, and the
   handle and name of the shared program as they were; the only state it
   changes is the program's cache of uniform locations, which keeps every
   entry it had and after the draw holds exactly the locations of
   transformation and color, so that every draw but the first changes
   nothing.  The rotation of a hand changes in update only. *)
C14_DrawOnlyFillsCache ==
    [][ /\ pc = "draw" =>
              /\ clock' = clock
              /\ Get(rc').mesh = Get(rc).mesh
              /\ Get(rc').shader.strong = Get(rc).shader.strong
              /\ Get(rc').shader.borrow = Get(rc).shader.borrow
              /\ Get(rc').shader.value.id = Get(rc).shader.value.id
              /\ Get(rc').shader.value.name = Get(rc).shader.value.name
              /\ CacheExtends(Get(rc).shader.value.uniform_locations,
                              Get(rc').shader.value.uniform_locations)
              /\ DOMAIN Get(rc').shader.value.uniform_locations = {TRANSFORMATION, COLOR}
              /\ \A name \in {TRANSFORMATION, COLOR} :
                    Get(rc').shader.value.uniform_locations[name] =
                        UniformLocation(gpu.active, Get(rc).shader.value.id, name)
              /\ DOMAIN Get(rc).shader.value.uniform_locations = {TRANSFORMATION, COLOR}
                    => rc' = rc
        /\ (IsSome(clock) /\ IsSome(clock')
            /\ \E k \in {"second_hand", "minute_hand", "hour_hand"} :
                  Get(clock')[k].rotation # Get(clock)[k].rotation)
              => pc = "update"
      ]_vars

(* a second frame has been drawn, at a time other than the first frame's *)
C14_Witness ==
    /\ pc = "poll" /\ frames = 2
    /\ DOMAIN Get(rc).shader.value.uniform_locations = {TRANSFORMATION, COLOR}
    /\ \E u \in PositionsOf({"AnalogClock.update"}) :
          \E v \in PositionsOf({"AnalogClock.update"}) :
              u < v /\ gpu.calls[u].x # gpu.calls[v].x

----------------------------------------------------------------------------
(* C15.  After any sequence of setter calls on a program, its cache of
   uniform locations holds exactly the names that were looked up on the GPU
   and had a non-negative location, each with that location (so a negative
   location is never inserted); a call keeps every entry the cache had,
   unchanged; a name that is cached is not looked up again: the call that
   finds it cached issues no GetUniformLocation, and the log holds one lookup
   of it at most. *)
C15_CacheInvariant ==
    LET prog == Get(rc).shader.value
        Lookups(name) == { i \in Positions("GetUniformLocation", prog.id) :
                              gpu.calls[i].x = name }
    IN  /\ DOMAIN prog.uniform_locations =
              { name \in UniformNames :
                    /\ Lookups(name) # {}
                    /\ UniformLocation(gpu.active, prog.id, name) >= 0 }
        /\ \A name \in DOMAIN prog.uniform_locations :
              /\ prog.uniform_locations[name] = UniformLocation(gpu.active, prog.id, name)
              /\ Cardinality(Lookups(name)) = 1
        /\ IsSome(call) =>
              /\ CacheExtends(Get(call).before.uniform_locations,
                              Get(call).result.prog.uniform_locations)
              /\ Get(call).result.prog.id = Get(call).before.id
              /\ (Get(call).setter \in Setters
                  /\ Get(call).name \in DOMAIN Get(call).before.uniform_locations) =>
                    /\ \A i \in DOMAIN Get(call).result.calls :
                          Get(call).result.calls[i].op # "GetUniformLocation"
                    /\ Get(call).result.prog = Get(call).before

(* a setter found its name cached and uploaded the value, and before it a
   name with no uniform was looked up and not cached *)
C15_Witness ==
    /\ IsSome(call)
    /\ Get(call).setter \in Setters
    /\ Get(call).name \in DOMAIN Get(call).before.uniform_locations
    /\ \E i \in DOMAIN Get(call).result.calls : Get(call).result.calls[i].op \in UniformOps
    /\ \E i \in Positions("GetUniformLocation", Get(call).before.id) :
          gpu.calls[i].x \notin DOMAIN Get(rc).shader.value.uniform_locations

----------------------------------------------------------------------------
(* the lengths, depths and colors AnalogClock::new builds the hands with *)
HandParameters ==
    [second_hand |-> [length |-> SecondHandLength, depth |-> SecondHandDepth,
                      color |-> SECOND_HAND_COLOR],
     minute_hand |-> [length |-> MinuteHandLength, depth |-> MinuteHandDepth,
                      color |-> MINUTE_HAND_COLOR],
     hour_hand |-> [length |-> HourHandLength, depth |-> HourHandDepth,
                    color |-> HOUR_HAND_COLOR]]

(* C16.  After construction and after any sequence of set_rotation calls, a
   hand's transform is RotateZ(rotation) * Translate(0, length, origin.z) *
   Scale(0.03, length, 1) of its stored fields, its origin is the midpoint
   of its mount point and its target point, and its length, color, mount
   point and the z of its target point are those it was built with. *)
C16_HandInvariant ==
    \A k \in DOMAIN HandParameters :
        LET h == Get(clock)[k]
            p == HandParameters[k]
        IN  /\ h.transform =
                  Affine3A_mul(
                      Affine3A_mul(Affine3A_from_rotation_z(h.rotation),
                                   Affine3A_from_translation(<<0, h.length, h.origin[3]>>)),
                      Affine3A_from_scale(<<30, h.length, Milli>>))
            /\ h.origin = <<FMul(h.mount_point[1] + h.target_point[1], 500),
                            FMul(h.mount_point[2] + h.target_point[2], 500),
                            FMul(h.mount_point[3] + h.target_point[3], 500)>>
            /\ h.length = p.length
            /\ h.color = p.color
            /\ h.mount_point = <<0, 0, p.depth>>
            /\ h.target_point[3] = p.depth

(* set_rotation has turned the three hands twice, to angles that differ *)
C16_Witness ==
    /\ frames = 2
    /\ \A h \in Hands(Get(clock)) : h.rotation # 0 /\ h.transform # Mat4_IDENTITY
    /\ Cardinality({h.rotation : h \in Hands(Get(clock))}) = 3

----------------------------------------------------------------------------
(* the depth test is off: Renderer::new never enables it *)
DepthTestDisabled ==
    \A i \in PositionsOf({"Enable"}) : gpu.calls[i].x # "DEPTH_TEST"

(* the colors of the hand draws of the last frame, in the order they were
   painted: with the depth test off a later draw covers an earlier one *)
PaintedColors ==
    LET clear == LastBefore({"Clear"}, Len(gpu.calls))
        draws == { d \in Between({"DrawElements"}, clear, Len(gpu.calls) + 1) :
                      gpu.calls[d].h = Get(rc).mesh.value.vertex_array_object }
        Nth(n) == CHOOSE d \in draws : Cardinality({e \in draws : e < d}) = n - 1
    IN  [n \in 1..Cardinality(draws) |-> gpu.calls[LastBefore({"Uniform3fv"}, Nth(n))].x.value]

(* C17, as stated.  With the depth test disabled, in a frame that has been
   drawn the second hand is painted last of the three hands, over the minute
   hand, which is painted over the hour hand.  It fails: AnalogClock::draw
   paints the second hand first and the hour hand last. *)
C17_SecondOverMinuteOverHour ==
    (pc = "poll" /\ frames > 0 /\ DepthTestDisabled) =>
        PaintedColors = <<HOUR_HAND_COLOR, MINUTE_HAND_COLOR, SECOND_HAND_COLOR>>

----------------------------------------------------------------------------
(* the logged calls that are not calls of a loaded gl function *)
HostOps ==
    {"sdl2::init", "Sdl.video", "Sdl.event_pump", "Sdl.drop", "EventPump.drop", "Event",
     "SDL_CreateWindow", "SDL_DestroyWindow", "VideoSubsystem.drop",
     "SDL_GL_CreateContext", "SDL_GL_DeleteContext", "SDL_GL_SetSwapInterval",
     "SDL_GL_SwapWindow", "gl::load_with", "AnalogClock.update"}

(* the positions of the gl calls *)
GlCalls == { i \in DOMAIN gpu.calls : gpu.calls[i].op \notin HostOps }

(* C18.  The gl function pointers are loaded once at most, and exactly once
   when the GL context has been created; the load follows the one creation
   of the context and comes before every gl call, those of Renderer::new, of
   the constructors of meshes, programs and textures, and of the draws; no
   context is created after a gl call. *)
C18_LoadOnceBeforeGl ==
    LET loads == PositionsOf({"gl::load_with"})
        contexts == PositionsOf({"SDL_GL_CreateContext"})
    IN  /\ Cardinality(loads) <= 1
        /\ Cardinality(contexts) <= 1
        /\ (\E c \in contexts : gpu.calls[c].x = "ok") => Cardinality(loads) = 1
        /\ \A l \in loads : \E c \in contexts : c < l /\ gpu.calls[c].x = "ok"
        /\ \A g \in GlCalls : \E l \in loads : l < g
        /\ \A g \in GlCalls : \A c \in contexts : c < g

(* two frames have been drawn and the process has returned *)
C18_Witness ==
    /\ pc = "exited" /\ frames = 2
    /\ Cardinality(PositionsOf({"gl::load_with"})) = 1
    /\ PositionsOf({"DrawElements"}) # {}
    /\ PositionsOf({"DeleteProgram"}) # {}

----------------------------------------------------------------------------
(* C19, as stated.  When from_sources has returned, which is so in every
   state, every shader-stage object created has had its DeleteShader, and
   every program created that was not returned in a ShaderProgram (its link
   failed, the info log was read) has had its DeleteProgram.  It fails: a
   stage that does not compile, or whose source holds a zero byte, is
   returned from compile_shader_stage without DeleteShader, and a program
   that does not link is returned from without DeleteProgram. *)
C19_FromSourcesLeaksNothing ==
    /\ \A i \in PositionsOf({"CreateShader"}) :
          Positions("DeleteShader", gpu.calls[i].h) # {}
    /\ \A i \in PositionsOf({"CreateProgram"}) :
          Positions("GetProgramInfoLog", gpu.calls[i].h) # {}
              => Positions("DeleteProgram", gpu.calls[i].h) # {}

----------------------------------------------------------------------------
(* C20.  The borrow checks on the shared hand mesh and hand program never
   fail: while the cells live no borrow of either is outstanding between
   steps, so update leaves none and each frame starts with both free; a draw
   of the clock from any reachable state gets through its three hands
   without a borrow panic, each hand leaving both cells free for the next;
   and no run unwinds (exit code 101). *)
C20_BorrowsNeverFail ==
    /\ IsSome(rc) =>
          /\ Get(rc).mesh.borrow = 0
          /\ Get(rc).shader.borrow = 0
    /\ (IsSome(rc) /\ IsSome(clock)) =>
          LET second == ClockHand_draw(gpu.active, Get(rc), Get(clock).second_hand)
              minute == ClockHand_draw(gpu.active, second.cells, Get(clock).minute_hand)
              hour == ClockHand_draw(gpu.active, minute.cells, Get(clock).hour_hand)
          IN  /\ ~second.panic /\ ~minute.panic /\ ~hour.panic
              /\ \A d \in {second, minute, hour} :
                    d.cells.mesh.borrow = 0 /\ d.cells.shader.borrow = 0
    /\ IsSome(err) => Get(err).kind # "panic"
    /\ exitCode # 101

(* two frames, each of three hand draws, have been drawn after updates *)
C20_Witness ==
    /\ pc = "poll" /\ frames = 2
    /\ Cardinality(Positions("DrawElements", Get(rc).mesh.value.vertex_array_object)) = 6
    /\ Cardinality(PositionsOf({"AnalogClock.update"})) = 2
    /\ Get(rc).shader.strong = 3

====
